---- MODULE Spec2Model ----
(***************************************************************************)
(* Invoice reconciliation workflow (LangGraph): document intelligence ->   *)
(* matching -> discrepancy detection -> resolution recommendation.         *)
(*                                                                         *)
(* Conventions of the model                                                *)
(*  - A Python str is a sequence of one-character strings; None is the     *)
(*    one-element sequence <<"None">>, which no str of the model equals.   *)
(*  - An Optional object (a dict, a pydantic model) is a sequence of at    *)
(*    most one element: <<>> is None, <<x>> is x.                          *)
(*  - Money is counted in pence and quantities in halves, so that the      *)
(*    float comparisons of the code are exact integer comparisons; for     *)
(*    these values the IEEE-754 results of the code's expressions and the  *)
(*    exact results agree (one correctly rounded division at a boundary).  *)
(*  - A ratio (a confidence, a variance) is a reduced fraction <<n, d>>.   *)
(*  - A fuzz score is a whole percentage 0..100.                           *)
(*  - Log lines and the human-readable details / reason strings are left   *)
(*    out: no decision of the code reads them.                             *)
(***************************************************************************)
EXTENDS Integers, Sequences, FiniteSets, TLC

(***************************************************************************)
(* Exact ratios                                                            *)
(***************************************************************************)
RECURSIVE GCD(_, _)
GCD(a, b) ==
    IF b = 0 THEN a ELSE GCD(b, a % b)

Abs(x) ==
    IF x < 0 THEN -x ELSE x

\* n/d reduced, d > 0
Frac(n, d) ==
    LET g == GCD(Abs(n), d)
    IN  IF n = 0 THEN <<0, 1>> ELSE <<n \div g, d \div g>>

FracGE(x, y) ==
    x[1] * y[2] >= y[1] * x[2]

FracGT(x, y) ==
    x[1] * y[2] > y[1] * x[2]

FracLT(x, y) ==
    FracGT(y, x)

FracMax(x, y) ==
    IF FracGT(x, y) THEN x ELSE y

Zero ==
    Frac(0, 1)

Min(a, b) ==
    IF a <= b THEN a ELSE b

RECURSIVE SeqSum(_)
SeqSum(s) ==
    IF s = <<>> THEN 0 ELSE Head(s) + SeqSum(Tail(s))

RECURSIVE SeqMax(_)
SeqMax(s) ==
    IF Len(s) = 1 THEN s[1]
    ELSE LET m == SeqMax(Tail(s)) IN IF s[1] >= m THEN s[1] ELSE m

Range(s) ==
    {s[i] : i \in DOMAIN s}

(***************************************************************************)
(* Python str values                                                       *)
(***************************************************************************)
None ==
    <<"None">>

\* Python truthiness of an Optional[str]: None and "" are falsy
Truthy(text) ==
    text # None /\ text # <<>>

SP ==
    " "

\* str.lower() on the letters the model's strings use
Lower(c) ==
    CASE c = "A" -> "a"
      [] c = "B" -> "b"
      [] c = "C" -> "c"
      [] c = "G" -> "g"
      [] c = "I" -> "i"
      [] c = "L" -> "l"
      [] c = "W" -> "w"
      [] OTHER -> c

LowerStr(s) ==
    [i \in DOMAIN s |-> Lower(s[i])]

RECURSIVE LStrip(_)
LStrip(s) ==
    IF s # <<>> /\ Head(s) = SP THEN LStrip(Tail(s)) ELSE s

RECURSIVE RStrip(_)
RStrip(s) ==
    IF s # <<>> /\ s[Len(s)] = SP THEN RStrip(SubSeq(s, 1, Len(s) - 1)) ELSE s

\* str.strip()
Strip(s) ==
    RStrip(LStrip(s))

\* re.sub(r'\s+', ' ', s): every run of whitespace becomes one space
RECURSIVE CollapseSpaces(_)
CollapseSpaces(s) ==
    IF s = <<>> THEN <<>>
    ELSE IF Head(s) = SP
         THEN <<SP>> \o CollapseSpaces(LStrip(s))
         ELSE <<Head(s)>> \o CollapseSpaces(Tail(s))

EndsWith(s, suffix) ==
    /\ Len(s) >= Len(suffix)
    /\ SubSeq(s, Len(s) - Len(suffix) + 1, Len(s)) = suffix

\* fuzzy_matcher.py line 37: the suffix list, in its order
suffixes ==
    << <<" ", "l", "t", "d">>,
       <<" ", "l", "i", "m", "i", "t", "e", "d">>,
       <<" ", "i", "n", "c">>,
       <<" ", "p", "l", "c">>,
       <<" ", "c", "o", "r", "p">>,
       <<" ", "c", "o", ".">>,
       <<" ", "l", "l", "c">>,
       <<" ", "g", "m", "b", "h">>,
       <<" ", "a", "b">> >>

\* the for loop over suffixes: one pass, each suffix tried once, in order
RECURSIVE StripSuffixes(_, _)
StripSuffixes(text, i) ==
    IF i > Len(suffixes) THEN text
    ELSE IF EndsWith(text, suffixes[i])
         THEN StripSuffixes(SubSeq(text, 1, Len(text) - Len(suffixes[i])), i + 1)
         ELSE StripSuffixes(text, i + 1)

\* FuzzyMatcher._normalize_text
normalize_text(text) ==
    IF ~Truthy(text) THEN <<>>
    ELSE Strip(StripSuffixes(CollapseSpaces(Strip(LowerStr(text))), 1))

(***************************************************************************)
(* rapidfuzz.fuzz: an external library.  Its four scorers are modelled by  *)
(* the scores they are taken to return on the normalized strings of the    *)
(* model's lexicon, <<ratio, partial_ratio, token_sort_ratio,              *)
(* token_set_ratio>>; equal strings score 100 with every scorer.           *)
(***************************************************************************)
s_acme ==
    <<"a", "c", "m", "e">>

s_acne ==
    <<"a", "c", "n", "e">>

s_ace ==
    <<"a", "c", "e">>

s_bolt ==
    <<"b", "o", "l", "t">>

s_widget ==
    <<"w", "i", "d", "g", "e", "t">>

s_widgit ==
    <<"w", "i", "d", "g", "i", "t">>

s_wide ==
    <<"w", "i", "d", "e">>

s_gasket ==
    <<"g", "a", "s", "k", "e", "t">>

s_blue_widget ==
    <<"b", "l", "u", "e", " ", "w", "i", "d", "g", "e", "t">>

s_blue_widgit ==
    <<"b", "l", "u", "e", " ", "w", "i", "d", "g", "i", "t">>

s_acme_ltd ==
    <<"a", "c", "m", "e", " ", "l", "t", "d">>

fuzz_scores(a, b) ==
    LET pair == {a, b}
    IN  CASE a = b -> <<100, 100, 100, 100>>
          [] pair = {s_acme, s_acne} -> <<70, 67, 70, 70>>
          [] pair = {s_acme, s_acme_ltd} -> <<67, 100, 67, 100>>
          [] pair = {s_acme, s_ace} -> <<24, 25, 24, 24>>
          [] pair = {s_acne, s_ace} -> <<24, 25, 24, 24>>
          [] pair = {s_widget, s_widgit} -> <<67, 70, 67, 67>>
          [] pair = {s_widget, s_wide} -> <<40, 50, 40, 40>>
          [] pair = {s_widgit, s_wide} -> <<40, 50, 40, 40>>
          [] pair = {s_widget, s_blue_widget} -> <<71, 100, 71, 100>>
          [] pair = {s_widgit, s_blue_widget} -> <<47, 70, 47, 67>>
          [] pair = {s_blue_widgit, s_widget} -> <<47, 70, 47, 67>>
          [] pair = {s_blue_widgit, s_widgit} -> <<71, 100, 71, 100>>
          [] pair = {s_blue_widgit, s_blue_widget} -> <<91, 91, 91, 91>>
          [] OTHER -> <<0, 0, 0, 0>>

fuzz_ratio(a, b) ==
    fuzz_scores(a, b)[1]

fuzz_partial_ratio(a, b) ==
    fuzz_scores(a, b)[2]

fuzz_token_sort_ratio(a, b) ==
    fuzz_scores(a, b)[3]

fuzz_token_set_ratio(a, b) ==
    fuzz_scores(a, b)[4]

(***************************************************************************)
(* FuzzyMatcher (src/tools/fuzzy_matcher.py)                               *)
(***************************************************************************)
\* MatchingAgent.__init__: FuzzyMatcher(threshold=70.0); the default of
\* FuzzyMatcher.__init__ is the same 70.0
threshold ==
    70

\* lines 66-71: the strategies tried for a supplier
supplier_scores(norm_inv, norm_po) ==
    << fuzz_ratio(norm_inv, norm_po),
       fuzz_partial_ratio(norm_inv, norm_po),
       fuzz_token_sort_ratio(norm_inv, norm_po),
       fuzz_token_set_ratio(norm_inv, norm_po) >>

\* lines 104-108: the strategies tried for a product description
product_scores(norm_inv, norm_po) ==
    << fuzz_token_set_ratio(norm_inv, norm_po),
       fuzz_partial_ratio(norm_inv, norm_po),
       fuzz_token_sort_ratio(norm_inv, norm_po) >>

\* mutant: the first strategy decides
scored_first(scores) ==
    <<scores[1] >= threshold, Frac(scores[1], 100)>>

\* lines 74-77 and 110-113: best_score = max(scores), confidence =
\* best_score / 100, is_match = best_score >= self.threshold
scored(scores) ==
    <<SeqMax(scores) >= threshold, Frac(SeqMax(scores), 100)>>

\* mutant: an absent supplier name matches every supplier
match_supplier_absent_matches(invoice_supplier, po_supplier) ==
    IF ~Truthy(invoice_supplier) \/ ~Truthy(po_supplier)
    THEN <<TRUE, Frac(1, 1)>>
    ELSE scored(supplier_scores(normalize_text(invoice_supplier),
                                normalize_text(po_supplier)))

\* FuzzyMatcher.match_supplier -> <<is_match, confidence>>
match_supplier(invoice_supplier, po_supplier) ==
    IF ~Truthy(invoice_supplier) \/ ~Truthy(po_supplier)
    THEN <<FALSE, Zero>>
    ELSE scored(supplier_scores(normalize_text(invoice_supplier),
                                normalize_text(po_supplier)))

\* FuzzyMatcher.match_product_description -> <<is_match, confidence>>
match_product_description(invoice_desc, po_desc) ==
    IF ~Truthy(invoice_desc) \/ ~Truthy(po_desc)
    THEN <<FALSE, Zero>>
    ELSE scored(product_scores(normalize_text(invoice_desc),
                               normalize_text(po_desc)))

\* the inner loop of find_best_po_match (lines 159-163): the best confidence
\* of one invoice description against the PO's line items, 0.0 with none
RECURSIVE best_item_conf(_, _)
best_item_conf(inv_desc, po_items) ==
    IF po_items = <<>> THEN Zero
    ELSE FracMax(match_product_description(
                     inv_desc, po_items[Len(po_items)].description)[2],
                 best_item_conf(inv_desc, SubSeq(po_items, 1, Len(po_items) - 1)))

Hundredths(c) ==
    (100 * c[1]) \div c[2]

\* total_item_conf as hundredths: the confidences are whole percentages
total_item_conf(inv_items, po_items) ==
    SeqSum([i \in DOMAIN inv_items |->
              Hundredths(best_item_conf(inv_items[i].description, po_items))])

\* avg_item_conf (line 171)
avg_item_conf(inv_items, po_items) ==
    IF inv_items = <<>> THEN Zero
    ELSE Frac(total_item_conf(inv_items, po_items), 100 * Len(inv_items))

\* mutant: the supplier has no weight
overall_conf_items_only(supplier_conf, avg_conf) ==
    avg_conf

\* overall_conf (line 174) = supplier_conf * 0.4 + avg_item_conf * 0.6
overall_conf(supplier_conf, avg_conf) ==
    Frac(4 * supplier_conf[1] * avg_conf[2] + 6 * avg_conf[1] * supplier_conf[2],
         10 * supplier_conf[2] * avg_conf[2])

\* the candidate entry of one PO: <<po_number, overall_conf>>
po_candidate(invoice_data, po) ==
    <<po.po_number,
      overall_conf(match_supplier(invoice_data.supplier_name, po.supplier)[2],
                   avg_item_conf(invoice_data.line_items, po.line_items))>>

\* mutant: a candidate exactly at the threshold is left out
candidate_included_strict(cand) ==
    FracGT(cand[2], Frac(threshold, 100))

\* line 186: only include if above minimum threshold
candidate_included(cand) ==
    FracGE(cand[2], Frac(threshold, 100))

\* mutant: the candidates stay in store order
sort_desc_unsorted(matches) ==
    matches

\* list.sort(key=lambda x: x[1], reverse=True): stable, so entries of equal
\* confidence keep their order
RECURSIVE sort_desc(_)
sort_desc(matches) ==
    IF matches = <<>> THEN <<>>
    ELSE LET top == CHOOSE i \in DOMAIN matches :
                        /\ \A j \in DOMAIN matches : FracGE(matches[i][2], matches[j][2])
                        /\ \A j \in 1..(i - 1) : FracGT(matches[i][2], matches[j][2])
             rest == [k \in 1..(Len(matches) - 1) |->
                         IF k < top THEN matches[k] ELSE matches[k + 1]]
         IN  <<matches[top]>> \o sort_desc(rest)

append_included(matches, cand) ==
    IF candidate_included(cand) THEN Append(matches, cand) ELSE matches

\* the candidates of all_pos[1..n], in store order, before the sort
RECURSIVE candidates(_, _, _)
candidates(invoice_data, all_pos, n) ==
    IF n = 0 THEN <<>>
    ELSE append_included(candidates(invoice_data, all_pos, n - 1),
                         po_candidate(invoice_data, all_pos[n]))

\* FuzzyMatcher.find_best_po_match -> [<<po_number, confidence>>, ...]
find_best_po_match(invoice_data, all_pos) ==
    IF all_pos = <<>> THEN <<>>
    ELSE sort_desc(candidates(invoice_data, all_pos, Len(all_pos)))

(***************************************************************************)
(* PODatabase (src/tools/po_database.py)                                   *)
(***************************************************************************)
\* PODatabase.get_po_by_number: the first PO of that number, or None
RECURSIVE get_po_by_number(_, _)
get_po_by_number(pos, po_number) ==
    IF pos = <<>> THEN <<>>
    ELSE IF Head(pos).po_number = po_number THEN <<Head(pos)>>
         ELSE get_po_by_number(Tail(pos), po_number)

\* PODatabase.get_all_pos
get_all_pos(pos) ==
    pos

(***************************************************************************)
(* MatchingAgent (src/agents/matching_agent.py)                            *)
(*                                                                         *)
(* fault names the one place of this run where an exception is raised, if  *)
(* the run gets there:                                                     *)
(*   "store"   PODatabase(...) raises (file missing, invalid JSON)         *)
(*   "lookup"  get_po_by_number raises (a PO entry without 'po_number')    *)
(*   "fuzzy"   find_best_po_match raises in its loop over the POs (an      *)
(*             entry that is no dict, a 'line_items' that is null)         *)
(*   "metrics" _calculate_match_metrics raises (the matched PO has no      *)
(*             'supplier' or 'line_items' key)                             *)
(* site names the function whose handler caught it.                        *)
(***************************************************************************)
MatchFaults ==
    {"none", "store", "lookup", "fuzzy", "metrics"}

\* MatchingResult(...) with the defaults of src/graph/state.py
MatchingResult(conf, po, method, sup, matched, total, rate) ==
    [po_match_confidence |-> conf, matched_po |-> po, match_method |-> method,
     supplier_match |-> sup, line_items_matched |-> matched,
     line_items_total |-> total, match_rate |-> rate]

NoMatchResult(method) ==
    MatchingResult(Zero, None, method, FALSE, 0, 0, Zero)

\* MatchingAgent._match_by_po_reference -> <<matched_po, method, confidence>>
match_by_po_reference(invoice_data, pos) ==
    LET po_ref == invoice_data.po_reference
        matched_po == get_po_by_number(pos, po_ref)
    IN  IF Truthy(po_ref) /\ matched_po # <<>>
        THEN <<matched_po, "exact_po_reference", Frac(99, 100)>>
        ELSE <<<<>>, "none", Zero>>

\* lines 141-147: the first entry of matches, looked up in the store
best_match(matches, pos, fault) ==
    IF matches # <<>>
    THEN IF fault = "lookup" THEN <<<<>>, Zero, TRUE>>
         ELSE <<get_po_by_number(pos, matches[1][1]), matches[1][2], FALSE>>
    ELSE <<<<>>, Zero, FALSE>>

\* MatchingAgent._fuzzy_match -> <<matched_po, confidence, raised>>; its
\* except clause turns every exception into (None, 0.0)
fuzzy_match(invoice_data, pos, fault) ==
    IF fault = "fuzzy" /\ pos # <<>> THEN <<<<>>, Zero, TRUE>>
    ELSE best_match(find_best_po_match(invoice_data, get_all_pos(pos)), pos, fault)

\* mutant: the fuzzy fallback is entered whatever the exact stage found
fuzzy_needed_always(confidence) ==
    TRUE

\* line 57: the fuzzy fallback runs only below this confidence
fuzzy_needed(confidence) ==
    FracLT(confidence, Frac(95, 100))

\* mutant: the inner loop has no break, every matching pair is counted
matched_count_pairs(inv_items, po_items) ==
    Cardinality({p \in (DOMAIN inv_items) \X (DOMAIN po_items) :
        match_product_description(inv_items[p[1]].description,
                                  po_items[p[2]].description)[1]})

\* lines 171-180: the invoice items with at least one matching PO item
matched_count(inv_items, po_items) ==
    Cardinality({i \in DOMAIN inv_items :
        \E j \in DOMAIN po_items :
            match_product_description(inv_items[i].description,
                                      po_items[j].description)[1]})

\* mutant: the result does not name the PO
metrics_result_unnamed(confidence, po_number, method, supplier_match, count, total) ==
    MatchingResult(confidence, None, method, supplier_match, count, total,
                   IF total # 0 THEN Frac(count, total) ELSE Zero)

\* lines 182-193: match_rate and the MatchingResult
metrics_result(confidence, po_number, method, supplier_match, count, total) ==
    MatchingResult(confidence, po_number, method, supplier_match, count, total,
                   IF total # 0 THEN Frac(count, total) ELSE Zero)

\* MatchingAgent._calculate_match_metrics
calculate_match_metrics(invoice_data, matched_po, method, confidence) ==
    metrics_result(confidence, matched_po.po_number, method,
                   match_supplier(IF invoice_data.supplier_name = None THEN <<>>
                                  ELSE invoice_data.supplier_name,
                                  matched_po.supplier)[1],
                   matched_count(invoice_data.line_items, matched_po.line_items),
                   Len(invoice_data.line_items))

\* mutant: line 65 (method = "fuzzy_matching") is missing
fallback_keeps_method(exact, fuzzy) ==
    IF fuzzy_needed(exact[3])
    THEN IF FracGT(fuzzy[2], exact[3])
         THEN <<fuzzy[1], exact[2], fuzzy[2], fuzzy[3]>>
         ELSE <<exact[1], exact[2], exact[3], fuzzy[3]>>
    ELSE <<exact[1], exact[2], exact[3], FALSE>>

\* lines 56-65: the fuzzy result replaces the exact one if the exact
\* confidence is below 0.95 and the fuzzy confidence is greater
fallback(exact, fuzzy) ==
    IF fuzzy_needed(exact[3])
    THEN IF FracGT(fuzzy[2], exact[3])
         THEN <<fuzzy[1], "fuzzy_matching", fuzzy[2], fuzzy[3]>>
         ELSE <<exact[1], exact[2], exact[3], fuzzy[3]>>
    ELSE <<exact[1], exact[2], exact[3], FALSE>>

\* lines 50-65: the two stages -> <<matched_po, method, confidence, raised>>
match_stages(extracted, pos, fault) ==
    fallback(match_by_po_reference(extracted, pos),
             fuzzy_match(extracted, pos, fault))

\* mutant: the except clause reports no_match instead of error
failed_outcome_no_match(pos, site) ==
    [matching_results |-> <<NoMatchResult("no_match")>>, matched_po_data |-> <<>>,
     pos |-> pos, site |-> site]

\* the except clause of run (lines 90-100)
failed_outcome(pos, site) ==
    [matching_results |-> <<NoMatchResult("error")>>, matched_po_data |-> <<>>,
     pos |-> pos, site |-> site]

\* mutant: without a PO the method and the confidence of the stages are
\* written as they are
staged_outcome_as_staged(extracted, pos, staged, fault) ==
    IF staged[1] # <<>>
    THEN IF fault = "metrics" THEN failed_outcome(<<pos>>, "metrics")
         ELSE [matching_results |->
                   <<calculate_match_metrics(extracted, staged[1][1],
                                             staged[2], staged[3])>>,
               matched_po_data |-> staged[1],
               pos |-> <<pos>>,
               site |-> IF staged[4] THEN "fuzzy" ELSE "none"]
    ELSE [matching_results |->
              <<MatchingResult(staged[3], None, staged[2], FALSE, 0, 0, Zero)>>,
          matched_po_data |-> <<>>,
          pos |-> <<pos>>,
          site |-> IF staged[4] THEN "fuzzy" ELSE "none"]

\* lines 67-88: the result for what the stages found
staged_outcome(extracted, pos, staged, fault) ==
    IF staged[1] # <<>>
    THEN IF fault = "metrics" THEN failed_outcome(<<pos>>, "metrics")
         ELSE [matching_results |->
                   <<calculate_match_metrics(extracted, staged[1][1],
                                             staged[2], staged[3])>>,
               matched_po_data |-> staged[1],
               pos |-> <<pos>>,
               site |-> IF staged[4] THEN "fuzzy" ELSE "none"]
    ELSE [matching_results |-> <<NoMatchResult("no_match")>>,
          matched_po_data |-> <<>>,
          pos |-> <<pos>>,
          site |-> IF staged[4] THEN "fuzzy" ELSE "none"]

\* the body of MatchingAgent.run for a non-empty extracted_data: what it
\* leaves in matching_results and matched_po_data, the store it loaded, and
\* the handler (site) that caught an exception, "none" if none was raised
matching_outcome(extracted, source, fault) ==
    IF fault = "store" THEN failed_outcome(<<>>, "store")
    ELSE IF fault = "lookup" /\ Truthy(extracted.po_reference) /\ source # <<>>
         THEN failed_outcome(<<source>>, "po_reference")
         ELSE staged_outcome(extracted, source,
                             match_stages(extracted, source, fault), fault)

(***************************************************************************)
(* DiscrepancyDetectionAgent (src/agents/discrepancy_detection_agent.py)   *)
(*                                                                         *)
(* fault names the one check of this run that raises, if the run gets to   *)
(* the statement: "price" and "quantity" at the read of the paired PO      *)
(* item's 'unit_price' / 'quantity' (a PO line item without that key),     *)
(* "total" at the read of po_data['total'].  Nothing in the agent catches. *)
(***************************************************************************)
DiscrepancyFaults ==
    {"none", "price", "quantity", "total"}

\* __init__, lines 17-19: 2%, 1% and 5.0 pounds (in pence)
price_tolerance ==
    Frac(2, 100)

total_tolerance_pct ==
    Frac(1, 100)

total_tolerance_abs ==
    500

\* Discrepancy(...) of src/graph/state.py; an absent Optional field is <<>>
Discrepancy(type, severity, index, field, inv_value, po_value, variance, action, conf) ==
    [type |-> type, severity |-> severity, line_item_index |-> index,
     field |-> field, invoice_value |-> inv_value, po_value |-> po_value,
     variance_percentage |-> variance, recommended_action |-> action,
     confidence |-> conf]

\* mutant: the PO item with the best score among those that match
find_matching_po_item_best(inv_item, po_items) ==
    LET conf(j) == match_product_description(inv_item.description,
                                             po_items[j].description)
        clear == {j \in DOMAIN po_items : conf(j)[1]}
    IN  IF clear = {} THEN <<>>
        ELSE <<po_items[CHOOSE j \in clear :
                            \A k \in clear :
                                \/ FracGT(conf(j)[2], conf(k)[2])
                                \/ conf(j)[2] = conf(k)[2] /\ j <= k]>>

\* DiscrepancyDetectionAgent._find_matching_po_item: the first PO item that
\* matches, under a fresh FuzzyMatcher() (default threshold), or None
RECURSIVE find_matching_po_item(_, _)
find_matching_po_item(inv_item, po_items) ==
    IF po_items = <<>> THEN <<>>
    ELSE IF match_product_description(inv_item.description,
                                      Head(po_items).description)[1]
         THEN <<Head(po_items)>>
         ELSE find_matching_po_item(inv_item, Tail(po_items))

\* line 93: variance_pct, 0 unless po_price > 0
price_variance_pct(inv_price, po_price) ==
    IF po_price > 0 THEN Frac(Abs(inv_price - po_price), po_price) ELSE Zero

\* mutant: a variance equal to the tolerance is flagged too
price_flagged_inclusive(variance_pct) ==
    FracGE(variance_pct, price_tolerance)

\* line 95
price_flagged(variance_pct) ==
    FracGT(variance_pct, price_tolerance)

\* mutant: a variance of exactly 15% is high already
price_is_high_inclusive(variance_pct) ==
    FracGE(variance_pct, Frac(15, 100))

\* lines 96 and 107
price_is_high(variance_pct) ==
    FracGT(variance_pct, Frac(15, 100))

\* lines 98-109: the entry of invoice item i (1-based here, i - 1 in it)
price_mismatch(i, inv_price, po_price) ==
    LET variance_pct == price_variance_pct(inv_price, po_price)
    IN  Discrepancy("price_mismatch",
                    IF price_is_high(variance_pct) THEN "high" ELSE "medium",
                    <<i - 1>>, "unit_price", <<inv_price>>, <<po_price>>,
                    <<Frac(100 * variance_pct[1], variance_pct[2])>>,
                    IF price_is_high(variance_pct) THEN "escalate_to_human"
                    ELSE "flag_for_review",
                    Frac(99, 100))

\* lines 89-109: one turn of the loop, for invoice item i and its PO item
price_checked(found, i, inv_item, po_item) ==
    IF po_item # <<>>
       /\ price_flagged(price_variance_pct(inv_item.unit_price, po_item[1].unit_price))
    THEN Append(found, price_mismatch(i, inv_item.unit_price, po_item[1].unit_price))
    ELSE found

\* DiscrepancyDetectionAgent._check_price_variances on line_items[1..n]
RECURSIVE check_price_variances(_, _, _)
check_price_variances(invoice_data, po_data, n) ==
    IF n = 0 THEN <<>>
    ELSE price_checked(check_price_variances(invoice_data, po_data, n - 1), n,
                       invoice_data.line_items[n],
                       find_matching_po_item(invoice_data.line_items[n],
                                             po_data.line_items))

\* lines 131-141
quantity_mismatch(i, inv_qty, po_qty) ==
    Discrepancy("quantity_mismatch", "medium", <<i - 1>>, "quantity",
                <<inv_qty>>, <<po_qty>>, <<>>, "flag_for_review", Frac(95, 100))

\* mutant: a difference of one unit is tolerated
quantity_checked_tolerant(found, i, inv_item, po_item) ==
    IF po_item # <<>> /\ Abs(inv_item.quantity - po_item[1].quantity) > 1
    THEN Append(found, quantity_mismatch(i, inv_item.quantity, po_item[1].quantity))
    ELSE found

\* lines 126-141: one turn of the loop
quantity_checked(found, i, inv_item, po_item) ==
    IF po_item # <<>> /\ inv_item.quantity # po_item[1].quantity
    THEN Append(found, quantity_mismatch(i, inv_item.quantity, po_item[1].quantity))
    ELSE found

\* DiscrepancyDetectionAgent._check_quantity_variances on line_items[1..n]
RECURSIVE check_quantity_variances(_, _, _)
check_quantity_variances(invoice_data, po_data, n) ==
    IF n = 0 THEN <<>>
    ELSE quantity_checked(check_quantity_variances(invoice_data, po_data, n - 1), n,
                          invoice_data.line_items[n],
                          find_matching_po_item(invoice_data.line_items[n],
                                                po_data.line_items))

\* mutant: a difference equal to the tolerance is flagged too
total_flagged_inclusive(variance_abs, po_total) ==
    variance_abs * total_tolerance_pct[2]
        >= Min(total_tolerance_abs * total_tolerance_pct[2],
               po_total * total_tolerance_pct[1])

\* line 157: variance_abs > min(5.0, po_total * 1%), both sides times 100
total_flagged(variance_abs, po_total) ==
    variance_abs * total_tolerance_pct[2]
        > Min(total_tolerance_abs * total_tolerance_pct[2],
              po_total * total_tolerance_pct[1])

\* mutant: a variance of exactly 10% is high already
total_is_high_inclusive(variance_pct) ==
    FracGE(variance_pct, Frac(10, 100))

\* lines 160 and 170
total_is_high(variance_pct) ==
    FracGT(variance_pct, Frac(10, 100))

\* mutant: against a PO total that is not positive any difference is high
check_total_variance_unbounded(invoice_data, po_data) ==
    LET inv_total == invoice_data.total
        po_total == po_data.total
        variance_abs == Abs(inv_total - po_total)
        variance_pct == IF po_total > 0 THEN Frac(variance_abs, po_total) ELSE Zero
        high == IF po_total > 0 THEN total_is_high(variance_pct) ELSE TRUE
    IN  IF total_flagged(variance_abs, po_total)
        THEN <<Discrepancy("total_variance",
                           IF high THEN "high" ELSE "medium",
                           <<>>, "total", <<inv_total>>, <<po_total>>,
                           <<Frac(100 * variance_pct[1], variance_pct[2])>>,
                           IF high THEN "escalate_to_human" ELSE "flag_for_review",
                           Frac(99, 100))>>
        ELSE <<>>

\* DiscrepancyDetectionAgent._check_total_variance: None or one entry
check_total_variance(invoice_data, po_data) ==
    LET inv_total == invoice_data.total
        po_total == po_data.total
        variance_abs == Abs(inv_total - po_total)
        variance_pct == IF po_total > 0 THEN Frac(variance_abs, po_total) ELSE Zero
        high == total_is_high(variance_pct)
    IN  IF total_flagged(variance_abs, po_total)
        THEN <<Discrepancy("total_variance",
                           IF high THEN "high" ELSE "medium",
                           <<>>, "total", <<inv_total>>, <<po_total>>,
                           <<Frac(100 * variance_pct[1], variance_pct[2])>>,
                           IF high THEN "escalate_to_human" ELSE "flag_for_review",
                           Frac(99, 100))>>
        ELSE <<>>

\* mutant: only a null reference is flagged, an empty string is not
check_missing_po_reference_null_only(invoice_data, matching_result) ==
    IF invoice_data.po_reference = None
    THEN <<Discrepancy("missing_po_reference", "medium", <<>>, "po_reference",
                       <<>>, <<>>, <<>>, "flag_for_review",
                       matching_result.po_match_confidence)>>
    ELSE <<>>

\* lines 56-65: the missing_po_reference entry, if the reference is falsy
check_missing_po_reference(invoice_data, matching_result) ==
    IF ~Truthy(invoice_data.po_reference)
    THEN <<Discrepancy("missing_po_reference", "medium", <<>>, "po_reference",
                       <<>>, <<>>, <<>>, "flag_for_review",
                       matching_result.po_match_confidence)>>
    ELSE <<>>

\* mutant: the missing reference is reported without a PO as well
detected_without_po_flagged ==
    <<Discrepancy("missing_po_reference", "medium", <<>>, "po_reference",
                  <<>>, <<>>, <<>>, "flag_for_review", Zero)>>

\* lines 28-32: the list left in the state when no PO was matched
detected_without_po ==
    <<>>

\* whether some invoice item has a paired PO item: the price and the
\* quantity check read the PO item's fields only then
some_item_paired(invoice_data, po_data) ==
    \E i \in DOMAIN invoice_data.line_items :
        find_matching_po_item(invoice_data.line_items[i], po_data.line_items) # <<>>

\* whether the fault's statement is executed, i.e. the run raises
discrepancy_raises(invoice_data, po_data, fault) ==
    \/ fault \in {"price", "quantity"} /\ some_item_paired(invoice_data, po_data)
    \/ fault = "total"

\* lines 34-65 of DiscrepancyDetectionAgent.run: the list it builds
detect(invoice_data, po_data, matching_result) ==
    LET n == Len(invoice_data.line_items)
    IN  check_price_variances(invoice_data, po_data, n)
        \o check_quantity_variances(invoice_data, po_data, n)
        \o check_total_variance(invoice_data, po_data)
        \o check_missing_po_reference(invoice_data, matching_result)

(***************************************************************************)
(* ResolutionRecommendationAgent                                           *)
(* (src/agents/resolution_recommendation_agent.py)                         *)
(*                                                                         *)
(* The LLM is external: a response is what self.llm.invoke does.           *)
(*   "call_failed"  invoke raises                                          *)
(*   "not_json"     response.content is not JSON (json.JSONDecodeError)    *)
(*   "missing_key"  JSON without the key named in missing (KeyError)       *)
(*   "ok"           JSON with the four keys                                *)
(***************************************************************************)
ResultKeys ==
    <<"recommended_action", "risk_level", "confidence", "agent_reasoning">>

\* the recommendation fields of the state
Recommendation(action, risk, conf, reasoning) ==
    [recommended_action |-> action, risk_level |-> risk,
     confidence |-> conf, agent_reasoning |-> reasoning]

\* lines 96-100 and 108-111: both handlers write the same fallback
fallback_recommendation(reasoning) ==
    Recommendation("escalate_to_human", "high", Zero, reasoning)

\* lines 87-90: the assignments from the parsed result, in order, up to the
\* first missing key
RECURSIVE assign_result(_, _, _, _)
assign_result(rec, response, missing, i) ==
    IF i > Len(ResultKeys) \/ ResultKeys[i] = missing THEN rec
    ELSE assign_result([rec EXCEPT ![ResultKeys[i]] = response[ResultKeys[i]]],
                       response, missing, i + 1)

\* mutant: a missing key keeps what was assigned before it
resolve_keeps_assigned(rec, response) ==
    CASE response.kind = "call_failed" -> fallback_recommendation("error")
      [] response.kind = "not_json" -> fallback_recommendation("failed")
      [] response.kind = "missing_key" ->
            [assign_result(rec, response, response.missing, 1)
                EXCEPT !.agent_reasoning = "error"]
      [] OTHER -> assign_result(rec, response, "", 1)

\* ResolutionRecommendationAgent.run: the recommendation fields it leaves
resolve(rec, response) ==
    CASE response.kind = "call_failed" -> fallback_recommendation("error")
      [] response.kind = "not_json" -> fallback_recommendation("failed")
      [] response.kind = "missing_key" ->
            [assign_result(rec, response, response.missing, 1)
                EXCEPT !.recommended_action = "escalate_to_human",
                       !.risk_level = "high",
                       !.confidence = Zero,
                       !.agent_reasoning = "error"]
      [] OTHER -> assign_result(rec, response, "", 1)

(***************************************************************************)
(* InvoiceReconciliationWorkflow (src/graph/workflow.py)                   *)
(***************************************************************************)
\* _route_after_extraction and the edge map of _build_graph; the
\* confidence is in hundredths
route_after_extraction(confidence) ==
    IF confidence < 50 THEN "resolution" ELSE "matching"

(***************************************************************************)
(* Inputs of a run: what extraction delivers, the PO file, the LLM answer  *)
(***************************************************************************)
MaxLineItems ==
    2

MaxPOs ==
    2

LineItem(description, quantity, unit_price) ==
    [description |-> description, quantity |-> quantity, unit_price |-> unit_price]

InvoiceData(po_reference, supplier_name, line_items, total) ==
    [po_reference |-> po_reference, supplier_name |-> supplier_name,
     line_items |-> line_items, total |-> total]

PurchaseOrder(po_number, supplier, line_items, total) ==
    [po_number |-> po_number, supplier |-> supplier,
     line_items |-> line_items, total |-> total]

SeqsUpTo(S, n) ==
    UNION {[1..k -> S] : k \in 0..n}

AcmeLtd ==
    <<"A", "c", "m", "e", " ", "L", "t", "d">>

BoltInc ==
    <<"B", "o", "l", "t", " ", "I", "n", "c">>

Widget ==
    <<"W", "i", "d", "g", "e", "t">>

Gasket ==
    <<"G", "a", "s", "k", "e", "t">>

PO_001 ==
    PurchaseOrder(<<"PO-2024-001">>, AcmeLtd,
                  <<LineItem(s_widget, 10, 10000), LineItem(s_gasket, 20, 5000)>>,
                  100000)

PO_005 ==
    PurchaseOrder(<<"PO-2024-005">>, BoltInc,
                  <<LineItem(s_widget, 2, 10000), LineItem(s_blue_widget, 1, 12000)>>,
                  32000)

PO_003 ==
    PurchaseOrder(<<"PO-2024-003">>, s_acme,
                  <<LineItem(s_gasket, 20, 0)>>, 0)

Catalogue ==
    {PO_001, PO_005, PO_003}

\* the PO files: up to MaxPOs entries, po_number unique
POSources ==
    {src \in SeqsUpTo(Catalogue, MaxPOs) :
        \A i, j \in DOMAIN src : i # j => src[i] # src[j]}

\* invoices that vary what matching reads
MatchingInvoices ==
    {InvoiceData(ref, sup, items, 100000) :
        ref \in {None, <<>>, <<"PO-2024-005">>},
        sup \in {None, AcmeLtd, s_acne},
        items \in SeqsUpTo({LineItem(d, 10, 10000) : d \in {Widget, s_widgit, Gasket}},
                           MaxLineItems)}

Prices ==
    {9800, 10000, 10200, 10201, 11500, 11501}

\* invoices that vary what the discrepancy checks read
PricingInvoices ==
    {InvoiceData(ref, AcmeLtd, <<LineItem(Widget, qty, price)>> \o second, total) :
        ref \in {None, <<"PO-2024-001">>},
        qty \in {10, 11},
        price \in Prices,
        second \in {<<>>, <<LineItem(Gasket, 20, 5000)>>, <<LineItem(Gasket, 20, 5500)>>},
        total \in {100000, 100501}}

\* invoices that differ from their PO in the total only: at the tolerance
\* and one penny above it, at 10% and one penny above it
TotalInvoices ==
    {InvoiceData(PO_001.po_number, PO_001.supplier, PO_001.line_items, total) :
        total \in {100500, 110000, 110001}}
    \cup {InvoiceData(PO_005.po_number, PO_005.supplier, PO_005.line_items, total) :
              total \in {32000, 32320, 32321}}

AcmeLtdInc ==
    <<"A", "c", "m", "e", " ", "L", "t", "d", " ", "I", "n", "c">>

\* an invoice whose supplier name ends in two suffixes
SuffixInvoices ==
    {InvoiceData(ref, AcmeLtdInc, <<LineItem(Widget, 10, 10000)>>, 100000) :
        ref \in {None, PO_001.po_number}}

\* an invoice whose first line clears the threshold with the first item of
\* PO_005 and scores higher with the second, which it copies
PairingInvoices ==
    {InvoiceData(PO_005.po_number, PO_005.supplier,
                 <<LineItem(s_blue_widgit, 1, 12000), LineItem(s_widget, 2, 10000)>>,
                 32000)}

Invoices ==
    MatchingInvoices \cup PricingInvoices \cup TotalInvoices \cup SuffixInvoices
        \cup PairingInvoices

\* what DocumentIntelligenceAgent.run meets: the extractor's (confidence,
\* quality), and the LLM's answer with its overall_confidence (hundredths)
Extraction(kind, invoice, llm_confidence, ocr_confidence, quality) ==
    [kind |-> kind, invoice |-> invoice, llm_confidence |-> llm_confidence,
     ocr_confidence |-> ocr_confidence, quality |-> quality]

SampleInvoice ==
    InvoiceData(<<"PO-2024-001">>, AcmeLtd, <<LineItem(Widget, 10, 10000)>>, 100000)

Extractions ==
    {Extraction("extracted", inv, 95, 95, "excellent") : inv \in Invoices}
    \cup {Extraction("extracted", SampleInvoice, c, 95, "excellent") : c \in {49, 50}}
    \cup {Extraction("extracted", SampleInvoice, 95, 0, "ocr_unavailable"),
          Extraction("json_error", SampleInvoice, 0, 95, "excellent"),
          Extraction("exception", SampleInvoice, 0, 0, "unknown")}

LLMResponse(kind, missing, action) ==
    [kind |-> kind, missing |-> missing, recommended_action |-> action,
     risk_level |-> "low", confidence |-> Frac(9, 10), agent_reasoning |-> "llm"]

LLMResponses ==
    {LLMResponse("ok", "", a) :
        a \in {"auto_approve", "flag_for_review", "escalate_to_human", "approve"}}
    \cup {LLMResponse("missing_key", ResultKeys[k], "auto_approve") : k \in DOMAIN ResultKeys}
    \cup {LLMResponse("not_json", "", ""), LLMResponse("call_failed", "", "")}

(***************************************************************************)
(* The state of one workflow run (AgentState) and the node that runs next  *)
(***************************************************************************)
VARIABLES
    pc,                     \* the node to run; "END"; "failed" once run() raised
    extracted_data,
    extraction_confidence,  \* hundredths
    document_quality,
    po_db,                  \* the PODatabase.pos the matching node loaded
    matching_results,
    matched_po_data,
    discrepancies,
    recommended_action,
    risk_level,
    confidence,
    agent_reasoning,
    current_agent,
    next_step,
    agent_execution_trace,  \* the keys written, in order
    raised                  \* the last exception site of the run, or "none"

(***************************************************************************)
(* The files and the last answers of the API (app.py)                      *)
(***************************************************************************)
VARIABLES
    stored_po,      \* data/uploads/purchase_orders.json: <<>> or <<content>>
    default_po,     \* data/purchase_orders.json: <<>> or <<content>>
    accepted_po,    \* the content upload-po last answered 200 for and that
                    \* no cleanup has removed since
    last_upload,    \* the content of the last upload-po request
    upload_answer,  \* the answer to the last upload-po request
    po_read,        \* the content at the po_path of the last workflow run
    last_call       \* the last endpoint called, and how it ended

appvars ==
    <<stored_po, default_po, accepted_po, last_upload, upload_answer, po_read, last_call>>

wfvars ==
    <<pc, extracted_data, extraction_confidence, document_quality, po_db,
      matching_results, matched_po_data, discrepancies, recommended_action,
      risk_level, confidence, agent_reasoning, current_agent, next_step,
      agent_execution_trace, raised>>

vars ==
    <<pc, extracted_data, extraction_confidence, document_quality, po_db,
      matching_results, matched_po_data, discrepancies, recommended_action,
      risk_level, confidence, agent_reasoning, current_agent, next_step,
      agent_execution_trace, raised,
      stored_po, default_po, accepted_po, last_upload, upload_answer, po_read, last_call>>

\* a file's content: what json.load makes of it ("object", "array" or
\* "not_json"), its text where that tells two contents apart, and the
\* purchase_orders of an object
JsonFile(kind, text, purchase_orders) ==
    [kind |-> kind, text |-> text, purchase_orders |-> purchase_orders]

\* the PO file of the repository
default_purchase_orders ==
    JsonFile("object", "", <<PO_001, PO_005, PO_003>>)

\* no answer yet
NoResponse ==
    [status_code |-> 0, detail |-> "", po_count |-> 0]

\* the API before its first call, with the PO file of the repository
app_idle ==
    /\ stored_po = <<>>
    /\ default_po = <<default_purchase_orders>>
    /\ accepted_po = <<>>
    /\ last_upload = <<>>
    /\ upload_answer = NoResponse
    /\ po_read = <<>>
    /\ last_call = "none"

\* InvoiceReconciliationWorkflow.run, the initial_state
initial_state ==
    /\ pc = "document_intelligence"
    /\ extracted_data = <<>>
    /\ extraction_confidence = 0
    /\ document_quality = "unknown"
    /\ po_db = <<>>
    /\ matching_results = <<>>
    /\ matched_po_data = <<>>
    /\ discrepancies = <<>>
    /\ recommended_action = ""
    /\ risk_level = ""
    /\ confidence = Zero
    /\ agent_reasoning = ""
    /\ current_agent = ""
    /\ next_step = ""
    /\ agent_execution_trace = <<>>
    /\ raised = "none"

\* one workflow run, the API's files as they are
Init ==
    /\ initial_state
    /\ app_idle

\* _run_doc_intelligence: DocumentIntelligenceAgent.run, the trace entry,
\* then the conditional edge
RunDocIntelligence ==
    /\ pc = "document_intelligence"
    /\ \E x \in Extractions :
        \E conf \in {IF x.kind = "extracted"
                      THEN Min(x.llm_confidence, x.ocr_confidence) ELSE 0} :
            /\ extracted_data' = IF x.kind = "extracted" THEN <<x.invoice>> ELSE extracted_data
            /\ extraction_confidence' = conf
            /\ document_quality' = IF x.kind = "extracted" THEN x.quality ELSE document_quality
            /\ pc' = route_after_extraction(conf)
    /\ current_agent' = "document_intelligence"
    /\ next_step' = "matching"
    /\ agent_execution_trace' = Append(agent_execution_trace, "document_intelligence_agent")
    /\ UNCHANGED <<po_db, matching_results, matched_po_data, discrepancies,
                   recommended_action, risk_level, confidence, agent_reasoning, raised>>
    /\ UNCHANGED appvars

\* _run_matching: MatchingAgent.run and the trace entry; the edge to
\* discrepancy_detection is unconditional
RunMatching ==
    /\ pc = "matching"
    /\ \E source \in POSources, fault \in MatchFaults :
        IF extracted_data = <<>>
        THEN /\ fault # "store"
             /\ po_db' = <<source>>
             /\ next_step' = "escalate"
             /\ UNCHANGED <<matching_results, matched_po_data, current_agent, raised>>
        ELSE \E out \in {matching_outcome(extracted_data[1], source, fault)} :
                 /\ po_db' = out.pos
                 /\ matching_results' = out.matching_results
                 /\ matched_po_data' = out.matched_po_data
                 /\ raised' = out.site
                 /\ current_agent' = "matching"
                 /\ next_step' = "discrepancy_detection"
    /\ pc' = "discrepancy_detection"
    /\ agent_execution_trace' = Append(agent_execution_trace, "matching_agent")
    /\ UNCHANGED <<extracted_data, extraction_confidence, document_quality,
                   discrepancies, recommended_action, risk_level, confidence,
                   agent_reasoning>>
    /\ UNCHANGED appvars

\* _run_discrepancy: DiscrepancyDetectionAgent.run and the trace entry.  An
\* exception of a check leaves the node, workflow.invoke and then run(),
\* which raises AppException: the run has no output
RunDiscrepancy ==
    /\ pc = "discrepancy_detection"
    /\ \E fault \in DiscrepancyFaults :
        IF matched_po_data = <<>>
        THEN /\ fault = "none"
             /\ discrepancies' = detected_without_po
             /\ next_step' = "resolution"
             /\ pc' = "resolution"
             /\ agent_execution_trace' =
                    Append(agent_execution_trace, "discrepancy_detection_agent")
             /\ UNCHANGED <<current_agent, raised>>
        ELSE IF discrepancy_raises(extracted_data[1], matched_po_data[1], fault)
        THEN /\ pc' = "failed"
             /\ raised' = fault
             /\ UNCHANGED <<discrepancies, next_step, current_agent, agent_execution_trace>>
        ELSE /\ discrepancies' = detect(extracted_data[1], matched_po_data[1],
                                        matching_results[1])
             /\ current_agent' = "discrepancy_detection"
             /\ next_step' = "resolution"
             /\ pc' = "resolution"
             /\ agent_execution_trace' =
                    Append(agent_execution_trace, "discrepancy_detection_agent")
             /\ UNCHANGED raised
    /\ UNCHANGED <<extracted_data, extraction_confidence, document_quality, po_db,
                   matching_results, matched_po_data, recommended_action,
                   risk_level, confidence, agent_reasoning>>
    /\ UNCHANGED appvars

\* _run_resolution: ResolutionRecommendationAgent.run and the trace entry,
\* then the edge to END
RunResolution ==
    /\ pc = "resolution"
    /\ \E response \in LLMResponses :
        \E rec \in {resolve(Recommendation(recommended_action, risk_level,
                                            confidence, agent_reasoning), response)} :
            /\ recommended_action' = rec.recommended_action
            /\ risk_level' = rec.risk_level
            /\ confidence' = rec.confidence
            /\ agent_reasoning' = rec.agent_reasoning
    /\ current_agent' = "resolution"
    /\ next_step' = "end"
    /\ pc' = "END"
    /\ agent_execution_trace' =
           Append(agent_execution_trace, "resolution_recommendation_agent")
    /\ UNCHANGED <<extracted_data, extraction_confidence, document_quality, po_db,
                   matching_results, matched_po_data, discrepancies, raised>>
    /\ UNCHANGED appvars

Next ==
    \/ RunDocIntelligence
    \/ RunMatching
    \/ RunDiscrepancy
    \/ RunResolution

Spec ==
    Init /\ [][Next]_vars

(***************************************************************************)
(* The PO endpoints of the API (app.py): upload-po, process-invoice,       *)
(* cleanup, each handler as one step                                       *)
(***************************************************************************)
\* the PO collections the uploaded files hold
UploadSources ==
    {<<>>, <<PO_001>>, <<PO_005, PO_003>>}

\* the contents a client sends: JSON objects, a JSON array, and two texts
\* that are not JSON
POFiles ==
    {JsonFile("object", "", src) : src \in UploadSources}
    \cup {JsonFile("array", "[]", <<>>)}
    \cup {JsonFile("not_json", t, <<>>) : t \in {"{", "PO-2024-001"}}

\* lines 146-163: json.load of the stored file and the answer
upload_response(content) ==
    CASE content.kind = "not_json" ->
             [status_code |-> 400, detail |-> "Invalid JSON file", po_count |-> 0]
      [] content.kind = "array" ->
             [status_code |-> 500, detail |-> "AttributeError", po_count |-> 0]
      [] OTHER ->
             [status_code |-> 200, detail |-> "Purchase orders uploaded successfully",
              po_count |-> Len(content.purchase_orders)]

\* mutant: the content is parsed first and stored only if it is accepted
upload_stored_if_valid(stored, content) ==
    IF upload_response(content).status_code = 200 THEN <<content>> ELSE stored

\* lines 139-143: the stored file after the write
upload_stored(stored, content) ==
    <<content>>

\* lines 189-200: the file process-invoice hands to the workflow
po_path(own, stored, default) ==
    IF own # <<>> THEN own
    ELSE IF stored # <<>> THEN stored
    ELSE default

\* initially the repository's PO file may be there or not
AppInit ==
    /\ initial_state
    /\ stored_po = <<>>
    /\ default_po \in {<<>>, <<default_purchase_orders>>}
    /\ accepted_po = <<>>
    /\ last_upload = <<>>
    /\ upload_answer = NoResponse
    /\ po_read = <<>>
    /\ last_call = "none"

\* POST /api/upload-po
UploadPO ==
    /\ \E json_name \in BOOLEAN, content \in POFiles :
        /\ last_upload' = <<content>>
        /\ IF ~json_name
           THEN /\ upload_answer' = [status_code |-> 400,
                                     detail |-> "File must be a JSON file",
                                     po_count |-> 0]
                /\ UNCHANGED <<stored_po, accepted_po>>
           ELSE /\ stored_po' = upload_stored(stored_po, content)
                /\ upload_answer' = upload_response(content)
                /\ accepted_po' = IF upload_response(content).status_code = 200
                                  THEN <<content>> ELSE accepted_po
    /\ last_call' = "upload-po"
    /\ UNCHANGED <<default_po, po_read>>
    /\ UNCHANGED wfvars

\* POST /api/process-invoice: the invoice is a PDF or not, po_file is given
\* or not
ProcessInvoice ==
    /\ \E pdf_name \in BOOLEAN, own \in {<<>>} \cup {<<c>> : c \in POFiles} :
        IF ~pdf_name
        THEN /\ last_call' = "process-invoice: 400"
             /\ UNCHANGED po_read
        ELSE IF po_path(own, stored_po, default_po) = <<>>
        THEN /\ last_call' = "process-invoice: 400"
             /\ UNCHANGED po_read
        ELSE /\ po_read' = po_path(own, stored_po, default_po)
             /\ last_call' = IF own # <<>> THEN "process-invoice: po_file"
                             ELSE "process-invoice"
    /\ UNCHANGED <<stored_po, default_po, accepted_po, last_upload, upload_answer>>
    /\ UNCHANGED wfvars

\* DELETE /api/cleanup
CleanupUploads ==
    /\ stored_po' = <<>>
    /\ accepted_po' = <<>>
    /\ last_call' = "cleanup"
    /\ UNCHANGED <<default_po, last_upload, upload_answer, po_read>>
    /\ UNCHANGED wfvars

AppNext ==
    \/ UploadPO
    \/ ProcessInvoice
    \/ CleanupUploads

AppSpec ==
    AppInit /\ [][AppNext]_vars

(***************************************************************************)
(* Properties                                                              *)
(***************************************************************************)
Ran(agent) ==
    \E i \in DOMAIN agent_execution_trace : agent_execution_trace[i] = agent

\* MatchingAgent.run has just returned for an extracted invoice; the later
\* nodes leave what it wrote unchanged
Matched ==
    /\ pc = "discrepancy_detection"
    /\ Ran("matching_agent")
    /\ extracted_data # <<>>
    /\ matching_results # <<>>

\* the handlers of MatchingAgent: run's own, and _fuzzy_match's
RunHandlerSites ==
    {"store", "po_reference", "metrics"}

MatchingSites ==
    RunHandlerSites \cup {"fuzzy"}

\* the invoice's po_reference is non-empty and a PO of the store has it
Resolves(invoice, store) ==
    /\ Truthy(invoice.po_reference)
    /\ \E k \in DOMAIN store : store[k].po_number = invoice.po_reference

\* C1  Exact match dominance: when the invoice's po_reference is non-empty
\* and is the po_number of a PO of the loaded store, and run's handler caught
\* nothing, the result is exact_po_reference with confidence 0.99 and that
\* po_number, whatever the fuzzy scores of the store's POs are.
ExactMatchDominance ==
    (/\ Matched
     /\ po_db # <<>>
     /\ raised \notin RunHandlerSites
     /\ Resolves(extracted_data[1], po_db[1]))
    => /\ matching_results[1].match_method = "exact_po_reference"
       /\ matching_results[1].po_match_confidence = Frac(99, 100)
       /\ matching_results[1].matched_po = extracted_data[1].po_reference
       /\ matched_po_data # <<>>
       /\ matched_po_data[1].po_number = extracted_data[1].po_reference

\* the first candidate of the fuzzy stage is another PO, at a confidence
\* above 0.99
FuzzyWouldWin(invoice, matches) ==
    /\ matches # <<>>
    /\ matches[1][1] # invoice.po_reference
    /\ FracGT(matches[1][2], Frac(99, 100))

\* C1 witness: an exact match in a store where another PO scores higher
ExactMatchDominanceWitness ==
    /\ Matched
    /\ po_db # <<>>
    /\ Resolves(extracted_data[1], po_db[1])
    /\ matching_results[1].match_method = "exact_po_reference"
    /\ FuzzyWouldWin(extracted_data[1],
                     find_best_po_match(extracted_data[1], po_db[1]))

\* C2  An invoice that is not matched (no_match, error) or whose extraction
\* confidence is below 0.5 always ends with escalate_to_human.
UnmatchedAlwaysEscalates ==
    (/\ pc = "END"
     /\ \/ extraction_confidence < 50
        \/ /\ matching_results # <<>>
           /\ matching_results[1].match_method \in {"no_match", "error"})
    => recommended_action = "escalate_to_human"

NoReferenceNeverExact ==
    (Matched /\ ~Truthy(extracted_data[1].po_reference))
    => /\ matching_results[1].match_method # "exact_po_reference"
       /\ matching_results[1].match_method \in {"fuzzy_matching", "no_match", "error"}

\* C4 witness: an invoice without reference, matched by the fuzzy stage
NoReferenceWitness ==
    /\ Matched
    /\ extracted_data[1].po_reference = None
    /\ matching_results[1].match_method = "fuzzy_matching"
    /\ matched_po_data # <<>>

\* The overall confidence as the specification words it, in whole numbers:
\* with s the supplier confidence and b_i the best description confidence of
\* invoice item i against the PO's items (percentages), and n the number of
\* invoice items, 0.4 * s + 0.6 * mean(b) = SpecScore / (1000 * SpecItems),
\* where SpecScore = 4 * s * n + 6 * sum(b), and 4 * s with no item.
SpecItems(invoice) ==
    IF invoice.line_items = <<>> THEN 1 ELSE Len(invoice.line_items)

SpecItemBest(desc, po_items) ==
    LET confs == {0} \cup {Hundredths(match_product_description(
                                          desc, po_items[j].description)[2]) :
                               j \in DOMAIN po_items}
    IN  CHOOSE c \in confs : \A d \in confs : d <= c

SpecScore(invoice, po) ==
    4 * Hundredths(match_supplier(invoice.supplier_name, po.supplier)[2])
      * SpecItems(invoice)
    + 6 * SeqSum([i \in DOMAIN invoice.line_items |->
                     SpecItemBest(invoice.line_items[i].description, po.line_items)])

SpecQualifies(invoice, po) ==
    SpecScore(invoice, po) >= 10 * threshold * SpecItems(invoice)

SpecConfidence(invoice, po) ==
    Frac(SpecScore(invoice, po), 1000 * SpecItems(invoice))

\* the fuzzy stage ran to its end: no exact match, nothing raised
FuzzyStageRan ==
    /\ Matched
    /\ po_db # <<>>
    /\ raised = "none"
    /\ ~Resolves(extracted_data[1], po_db[1])

\* the 70% supplier match and the number of matching items of scenario A
ScenarioA(invoice, po) ==
    /\ Len(invoice.line_items) = 2
    /\ match_supplier(invoice.supplier_name, po.supplier)[1]
    /\ matched_count(invoice.line_items, po.line_items) >= 1

FuzzyMatchedTo(po) ==
    /\ matching_results[1].match_method = "fuzzy_matching"
    /\ matching_results[1].matched_po = po.po_number

\* C5 as claimed: a PO whose supplier matches at 70% or more and one of
\* whose items matches one of the invoice's two items is the fuzzy match.
ScenarioAMatches ==
    FuzzyStageRan
    => \A k \in DOMAIN po_db[1] :
           ScenarioA(extracted_data[1], po_db[1][k]) => FuzzyMatchedTo(po_db[1][k])

\* PO k is the first PO of the store with the highest overall confidence
SpecFirstBest(invoice, store, k) ==
    /\ \A j \in DOMAIN store :
           SpecScore(invoice, store[j]) <= SpecScore(invoice, store[k])
    /\ \A j \in 1..(k - 1) :
           SpecScore(invoice, store[j]) < SpecScore(invoice, store[k])

\* C5  Scenario A as a rule: when the reference is absent or does not
\* resolve and no exception is raised, a PO whose overall confidence
\* 0.4 * supplier + 0.6 * mean best item confidence is at least 0.70, and
\* which is the first PO of the store with the highest overall confidence,
\* is the result, by fuzzy_matching.  The supplier at 70% and one item of two
\* matching are not enough.
ScenarioAByOverallConfidence ==
    FuzzyStageRan
    => \A k \in DOMAIN po_db[1] :
           (/\ SpecQualifies(extracted_data[1], po_db[1][k])
            /\ SpecFirstBest(extracted_data[1], po_db[1], k))
           => FuzzyMatchedTo(po_db[1][k])

\* C5 witness: two items of which one matches, and the PO is matched
ScenarioAWitness ==
    /\ FuzzyStageRan
    /\ matched_po_data # <<>>
    /\ ScenarioA(extracted_data[1], matched_po_data[1])
    /\ matched_count(extracted_data[1].line_items, matched_po_data[1].line_items) = 1
    /\ FuzzyMatchedTo(matched_po_data[1])

\* the list is what the specification says of it
CandidatesAsSpecified(invoice, store, matches) ==
    /\ Len(matches) = Cardinality({k \in DOMAIN store : SpecQualifies(invoice, store[k])})
    /\ \A k \in DOMAIN store :
           SpecQualifies(invoice, store[k])
           <=> \E i \in DOMAIN matches :
                   matches[i] = <<store[k].po_number, SpecConfidence(invoice, store[k])>>
    /\ \A i \in 1..(Len(matches) - 1) : FracGE(matches[i][2], matches[i + 1][2])

\* the result of run is the first candidate, or no_match without one
FirstCandidateIsResult(matches) ==
    IF matches = <<>>
    THEN matching_results[1] = NoMatchResult("no_match")
    ELSE /\ matching_results[1].match_method = "fuzzy_matching"
         /\ matching_results[1].matched_po = matches[1][1]
         /\ matching_results[1].po_match_confidence = matches[1][2]

\* C6  Fuzzy candidate selection: find_best_po_match returns exactly the POs
\* whose 0.4 * supplier_conf + 0.6 * avg_item_conf is >= threshold / 100
\* (avg_item_conf 0 without line items), each with that confidence, sorted
\* by it descending; the fuzzy stage's result is the first entry.
FuzzyCandidateSelection ==
    (Matched /\ po_db # <<>>)
    => /\ CandidatesAsSpecified(extracted_data[1], po_db[1],
                                find_best_po_match(extracted_data[1], po_db[1]))
       /\ FuzzyStageRan
          => FirstCandidateIsResult(find_best_po_match(extracted_data[1], po_db[1]))

\* the second PO of the store is the better candidate of two
SecondIsBetter(invoice, store) ==
    /\ Len(store) = 2
    /\ SpecQualifies(invoice, store[1])
    /\ SpecScore(invoice, store[1]) < SpecScore(invoice, store[2])

\* C6 witness: two candidates, the better one second in the store, matched
FuzzyCandidateWitness ==
    /\ FuzzyStageRan
    /\ SecondIsBetter(extracted_data[1], po_db[1])
    /\ matching_results[1].matched_po = po_db[1][2].po_number

\* DiscrepancyDetectionAgent.run has just returned for an extracted invoice;
\* the resolution node leaves the list unchanged
Detected ==
    /\ pc = "resolution"
    /\ Ran("discrepancy_detection_agent")
    /\ extracted_data # <<>>

Entries(type) ==
    {i \in DOMAIN discrepancies : discrepancies[i].type = type}

\* exactly one missing_po_reference entry, with the matcher's confidence
MissingReferenceFlagged ==
    /\ Cardinality(Entries("missing_po_reference")) = 1
    /\ \A i \in Entries("missing_po_reference") :
           /\ discrepancies[i].severity = "medium"
           /\ discrepancies[i].recommended_action = "flag_for_review"
           /\ discrepancies[i].confidence = matching_results[1].po_match_confidence

\* C7 as claimed: every invoice without PO reference gets the entry.
MissingReferenceAlwaysFlagged ==
    (Detected /\ ~Truthy(extracted_data[1].po_reference))
    => MissingReferenceFlagged

\* C7  Missing PO reference: for an invoice whose po_reference is empty or
\* null, when a PO was matched (by fuzzy means) the returned list has exactly
\* one missing_po_reference entry, medium, flag_for_review, with confidence
\* po_match_confidence; when no PO was matched the list is empty.
MissingReferenceFlaggedWhenMatched ==
    (Detected /\ ~Truthy(extracted_data[1].po_reference))
    => IF matched_po_data # <<>>
       THEN MissingReferenceFlagged
       ELSE discrepancies = <<>>

\* C7 witness: an empty-string reference, a fuzzy match, and the entry
MissingReferenceWitness ==
    /\ Detected
    /\ extracted_data[1].po_reference = <<>>
    /\ matched_po_data # <<>>
    /\ matching_results[1].match_method = "fuzzy_matching"
    /\ Cardinality(Entries("missing_po_reference")) = 1

\* what the checks that did not raise find
OtherChecksFound(invoice, po, result, n) ==
    (IF raised = "price" THEN <<>> ELSE check_price_variances(invoice, po, n))
    \o (IF raised = "quantity" THEN <<>> ELSE check_quantity_variances(invoice, po, n))
    \o (IF raised = "total" THEN <<>> ELSE check_total_variance(invoice, po))
    \o check_missing_po_reference(invoice, result)

\* C8  Check isolation: with a matched PO, once the discrepancy node is
\* over, the run goes on and the findings of every check that did not raise
\* are in the list, also when one check raised.
ChecksAreIsolated ==
    (/\ extracted_data # <<>>
     /\ matched_po_data # <<>>
     /\ pc \notin {"document_intelligence", "matching", "discrepancy_detection"})
    => /\ pc # "failed"
       /\ Range(OtherChecksFound(extracted_data[1], matched_po_data[1],
                                 matching_results[1],
                                 Len(extracted_data[1].line_items)))
              \subseteq Range(discrepancies)

PriceEntries(i) ==
    {k \in Entries("price_mismatch") : discrepancies[k].line_item_index = <<i - 1>>}

\* the rule of the specification for one pair of prices
PriceOverTolerance(inv_price, po_price) ==
    po_price > 0 /\ 100 * Abs(inv_price - po_price) > 2 * po_price

PriceRule(i, inv_item, po_item) ==
    po_item # <<>>
    => IF PriceOverTolerance(inv_item.unit_price, po_item[1].unit_price)
       THEN Cardinality(PriceEntries(i)) = 1
       ELSE PriceEntries(i) = {}

\* C9  Price tolerance boundary: for each invoice line item paired with a PO
\* line item, a price_mismatch of that item is in the list iff the PO unit
\* price is > 0 and |inv_price - po_price| / po_price > 0.02; exactly 2% is
\* not flagged, and with a PO unit price of 0 nothing is.
PriceToleranceBoundary ==
    (Detected /\ matched_po_data # <<>>)
    => \A i \in DOMAIN extracted_data[1].line_items :
           PriceRule(i, extracted_data[1].line_items[i],
                     find_matching_po_item(extracted_data[1].line_items[i],
                                           matched_po_data[1].line_items))

\* invoice item i differs from its PO item by pct hundredths of a percent
PriceVariesBy(i, hundredths_pct) ==
    LET inv_item == extracted_data[1].line_items[i]
        po_item == find_matching_po_item(inv_item, matched_po_data[1].line_items)
    IN  /\ po_item # <<>>
        /\ po_item[1].unit_price > 0
        /\ 10000 * Abs(inv_item.unit_price - po_item[1].unit_price)
               = hundredths_pct * po_item[1].unit_price

\* C9 witness: a paired item at exactly 2.0%, and no price_mismatch for it
PriceToleranceWitness ==
    /\ Detected
    /\ matched_po_data # <<>>
    /\ extracted_data[1].line_items # <<>>
    /\ PriceVariesBy(1, 200)
    /\ PriceEntries(1) = {}

\* the rule of the specification for one price_mismatch entry
PriceSeverityRule(d, inv_price, po_price) ==
    /\ d.invoice_value = <<inv_price>>
    /\ d.po_value = <<po_price>>
    /\ po_price > 0
    /\ IF 100 * Abs(inv_price - po_price) > 15 * po_price
       THEN d.severity = "high" /\ d.recommended_action = "escalate_to_human"
       ELSE d.severity = "medium" /\ d.recommended_action = "flag_for_review"
    /\ d.confidence = Frac(99, 100)
    /\ d.variance_percentage = <<Frac(100 * Abs(inv_price - po_price), po_price)>>

PairedPrice(inv_item, po_items) ==
    find_matching_po_item(inv_item, po_items)[1].unit_price

\* C10  Price severity: every price_mismatch of the list is high and
\* escalate_to_human iff the variance of its item exceeds 15%, else medium
\* and flag_for_review; its confidence is 0.99 and its variance_percentage
\* is 100 times the variance.
PriceSeverity ==
    (Detected /\ matched_po_data # <<>>)
    => \A k \in Entries("price_mismatch") :
           /\ discrepancies[k].line_item_index # <<>>
           /\ (discrepancies[k].line_item_index[1] + 1)
                  \in DOMAIN extracted_data[1].line_items
           /\ PriceSeverityRule(
                  discrepancies[k],
                  extracted_data[1].line_items[
                      discrepancies[k].line_item_index[1] + 1].unit_price,
                  PairedPrice(extracted_data[1].line_items[
                                  discrepancies[k].line_item_index[1] + 1],
                              matched_po_data[1].line_items))

\* C10 witness: an item at exactly 15%, flagged medium
PriceSeverityWitness ==
    /\ Detected
    /\ matched_po_data # <<>>
    /\ extracted_data[1].line_items # <<>>
    /\ PriceVariesBy(1, 1500)
    /\ \E k \in PriceEntries(1) : discrepancies[k].severity = "medium"

\* the rule of the specification for the totals, in pence:
\* d > min(500, po_total / 100) iff d > 500 or 100 * d > po_total
TotalOverTolerance(inv_total, po_total) ==
    \/ Abs(inv_total - po_total) > 500
    \/ 100 * Abs(inv_total - po_total) > po_total

\* C11  Total tolerance: with a matched PO the list has one total_variance
\* entry if |inv_total - po_total| > min(5.0, 0.01 * po_total) and none
\* otherwise; against a PO total of 1000.00 a difference of 5.00 is not
\* flagged and 5.01 is.
TotalTolerance ==
    (Detected /\ matched_po_data # <<>>)
    => Cardinality(Entries("total_variance"))
           = IF TotalOverTolerance(extracted_data[1].total, matched_po_data[1].total)
             THEN 1 ELSE 0

\* C11 witness: 1005.00 against 1000.00, and no total_variance
TotalToleranceWitness ==
    /\ Detected
    /\ matched_po_data # <<>>
    /\ matched_po_data[1].total = 100000
    /\ extracted_data[1].total = 100500
    /\ Entries("total_variance") = {}

\* the rule of the specification for one total_variance entry
TotalSeverityRule(d, inv_total, po_total) ==
    /\ d.invoice_value = <<inv_total>>
    /\ d.po_value = <<po_total>>
    /\ IF po_total > 0 /\ 10 * Abs(inv_total - po_total) > po_total
       THEN d.severity = "high" /\ d.recommended_action = "escalate_to_human"
       ELSE d.severity = "medium" /\ d.recommended_action = "flag_for_review"
    /\ po_total > 0
       => d.variance_percentage = <<Frac(100 * Abs(inv_total - po_total), po_total)>>

\* C12  Total severity boundary: a total_variance entry is high and
\* escalate_to_human iff |inv_total - po_total| / po_total > 0.10, else
\* medium and flag_for_review, and its variance_percentage is 100 times that
\* ratio; 1100.00 against 1000.00 gives 10.0, medium, flag_for_review.
TotalSeverity ==
    (Detected /\ matched_po_data # <<>>)
    => \A k \in Entries("total_variance") :
           TotalSeverityRule(discrepancies[k], extracted_data[1].total,
                             matched_po_data[1].total)

\* C12 witness: 1100.00 against 1000.00: 10.0, medium, flag_for_review
TotalSeverityWitness ==
    /\ Detected
    /\ matched_po_data # <<>>
    /\ matched_po_data[1].total = 100000
    /\ extracted_data[1].total = 110000
    /\ \E k \in Entries("total_variance") :
           /\ discrepancies[k].variance_percentage = <<Frac(10, 1)>>
           /\ discrepancies[k].severity = "medium"
           /\ discrepancies[k].recommended_action = "flag_for_review"

QuantityEntries(i) ==
    {k \in Entries("quantity_mismatch") : discrepancies[k].line_item_index = <<i - 1>>}

QuantityEntryRule(d, inv_qty, po_qty) ==
    /\ d.severity = "medium"
    /\ d.recommended_action = "flag_for_review"
    /\ d.confidence = Frac(95, 100)
    /\ d.invoice_value = <<inv_qty>>
    /\ d.po_value = <<po_qty>>

QuantityRule(i, inv_item, po_item) ==
    IF po_item # <<>> /\ inv_item.quantity # po_item[1].quantity
    THEN /\ Cardinality(QuantityEntries(i)) = 1
         /\ \A k \in QuantityEntries(i) :
                QuantityEntryRule(discrepancies[k], inv_item.quantity,
                                  po_item[1].quantity)
    ELSE QuantityEntries(i) = {}

\* C13  Quantity exactness: for each invoice line item paired with a PO line
\* item, the list has a quantity_mismatch of that item iff the two
\* quantities differ, with no tolerance; the entry is medium,
\* flag_for_review, confidence 0.95.  An unpaired item has none.
QuantityExactness ==
    (Detected /\ matched_po_data # <<>>)
    => /\ \A i \in DOMAIN extracted_data[1].line_items :
              QuantityRule(i, extracted_data[1].line_items[i],
                           find_matching_po_item(extracted_data[1].line_items[i],
                                                 matched_po_data[1].line_items))
       /\ \A k \in Entries("quantity_mismatch") :
              \E i \in DOMAIN extracted_data[1].line_items : k \in QuantityEntries(i)

\* invoice item i is paired and its quantity differs by diff from the PO's
QuantityDiffers(i, diff) ==
    LET inv_item == extracted_data[1].line_items[i]
        po_item == find_matching_po_item(inv_item, matched_po_data[1].line_items)
    IN  po_item # <<>> /\ Abs(inv_item.quantity - po_item[1].quantity) = diff

\* C13 witness: two paired items, the first one unit off and flagged, the
\* second equal and not flagged
QuantityExactnessWitness ==
    /\ Detected
    /\ matched_po_data # <<>>
    /\ Len(extracted_data[1].line_items) = 2
    /\ QuantityDiffers(1, 1)
    /\ QuantityDiffers(2, 0)
    /\ Cardinality(QuantityEntries(1)) = 1
    /\ QuantityEntries(2) = {}

\* C14  No-PO short circuit: when no PO was matched nothing is raised in
\* the discrepancy node, and once it has run the list is empty, whatever
\* the invoice lacks, and the next node is resolution.
NoPOShortCircuit ==
    matched_po_data = <<>>
    => /\ pc # "failed"
       /\ Ran("discrepancy_detection_agent")
          => /\ discrepancies = <<>>
             /\ next_step \in {"resolution", "end"}
             /\ pc \in {"resolution", "END"}

\* C14 witness: after the error result, for an invoice without reference,
\* the node has run and the list is empty
NoPOShortCircuitWitness ==
    /\ pc = "resolution"
    /\ Ran("discrepancy_detection_agent")
    /\ extracted_data # <<>>
    /\ ~Truthy(extracted_data[1].po_reference)
    /\ matching_results # <<>>
    /\ matching_results[1].match_method = "error"
    /\ matched_po_data = <<>>
    /\ discrepancies = <<>>

\* the price of invoice item i is pct percent above that of its PO item
PriceAbove(i, pct) ==
    LET inv_item == extracted_data[1].line_items[i]
        po_item == find_matching_po_item(inv_item, matched_po_data[1].line_items)
    IN  /\ po_item # <<>>
        /\ po_item[1].unit_price > 0
        /\ 100 * (inv_item.unit_price - po_item[1].unit_price)
               = pct * po_item[1].unit_price

\* two line items, one 10% above its PO counterpart, the other at its price
ScenarioC ==
    /\ extracted_data # <<>>
    /\ matched_po_data # <<>>
    /\ Len(extracted_data[1].line_items) = 2
    /\ \/ PriceAbove(1, 10) /\ PriceAbove(2, 0)
       \/ PriceAbove(1, 0) /\ PriceAbove(2, 10)

\* C15  Scenario C as a rule: a run over such an invoice ends with exactly
\* one price_mismatch in the list, medium and flag_for_review, and with a
\* final recommended_action other than auto_approve.
ScenarioCNotApproved ==
    (pc = "END" /\ ScenarioC)
    => /\ Cardinality(Entries("price_mismatch")) = 1
       /\ \A k \in Entries("price_mismatch") :
              /\ discrepancies[k].severity = "medium"
              /\ discrepancies[k].recommended_action = "flag_for_review"
       /\ recommended_action # "auto_approve"

\* the invoice repeats the PO its reference resolves to
CleanInvoice ==
    /\ extracted_data # <<>>
    /\ matched_po_data # <<>>
    /\ extracted_data[1].po_reference = matched_po_data[1].po_number
    /\ extracted_data[1].line_items = matched_po_data[1].line_items
    /\ extracted_data[1].total = matched_po_data[1].total

\* C16  A clean invoice yields no discrepancies: when the invoice's
\* reference resolves to a PO and its line items and total are that PO's,
\* the list returned by discrepancy detection is empty.
CleanInvoiceNoDiscrepancies ==
    (Detected /\ CleanInvoice) => discrepancies = <<>>

\* C17  normalize is idempotent: normalizing the normal form of the
\* supplier name that matching read gives that normal form again.
NormalizeIdempotent ==
    Matched
    => normalize_text(normalize_text(extracted_data[1].supplier_name))
           = normalize_text(extracted_data[1].supplier_name)

\* the absent values of a string field: null and the empty string
Absent ==
    {None, <<>>}

\* both matchers give (false, 0.0) when either side is absent
AbsentNeverMatches(supplier, descriptions) ==
    \A a \in Absent :
        /\ match_supplier(a, supplier) = <<FALSE, Zero>>
        /\ match_supplier(supplier, a) = <<FALSE, Zero>>
        /\ \A b \in Absent : match_supplier(a, b) = <<FALSE, Zero>>
        /\ \A d \in descriptions :
               /\ match_product_description(a, d) = <<FALSE, Zero>>
               /\ match_product_description(d, a) = <<FALSE, Zero>>

Descriptions(po) ==
    {po.line_items[j].description : j \in DOMAIN po.line_items}

\* the POs of the store the matching node loaded, none if the load failed
LoadedPOs ==
    IF po_db = <<>> THEN {} ELSE Range(po_db[1])

\* an invoice record with an optional field null or without line items
HasAbsentField(invoice) ==
    \/ invoice.supplier_name \in Absent
    \/ invoice.po_reference \in Absent
    \/ invoice.line_items = <<>>

BadSourceIsFatal ==
    raised = "store" => pc = "failed" /\ matching_results = <<>>

\* the invoice items some PO item of which clears the product threshold
SpecMatchedItems(inv_items, po_items) ==
    {i \in DOMAIN inv_items :
        SpecItemBest(inv_items[i].description, po_items) >= threshold}

MetricsRule(result, inv_items, po_items) ==
    /\ result.line_items_total = Len(inv_items)
    /\ result.line_items_matched = Cardinality(SpecMatchedItems(inv_items, po_items))
    /\ 0 <= result.line_items_matched
    /\ result.line_items_matched <= result.line_items_total
    /\ result.match_rate = IF inv_items = <<>> THEN Zero
                           ELSE Frac(result.line_items_matched,
                                     result.line_items_total)

\* C20  Match metrics: after a successful match line_items_total is the
\* number of invoice line items, line_items_matched the number of them with
\* a PO line item at or above the product threshold, 0 <= matched <= total,
\* and match_rate = matched / total, 0.0 without line items.
MatchMetrics ==
    (Matched /\ matched_po_data # <<>>)
    => MetricsRule(matching_results[1], extracted_data[1].line_items,
                   matched_po_data[1].line_items)

\* C20 witness: one of two items has a PO item: 1 of 2, rate 1/2
MatchMetricsWitness ==
    /\ Matched
    /\ matched_po_data # <<>>
    /\ matching_results[1].line_items_total = 2
    /\ matching_results[1].line_items_matched = 1
    /\ matching_results[1].match_rate = Frac(1, 2)

\* what lines 67-83 write when the fuzzy stage hands over no PO together
\* with a positive confidence
UnresolvedOutcome(invoice, store, conf) ==
    staged_outcome(invoice, store, <<<<>>, "fuzzy_matching", conf, FALSE>>, "none")

\* C21  Unmatched terminal state: when neither stage yields a PO (and run's
\* handler caught nothing) the result is no_match with confidence 0.0,
\* matched_po null and match_rate 0.0; the same is written for a fuzzy stage
\* that returns no PO with a positive confidence.
UnmatchedTerminal ==
    (Matched /\ po_db # <<>> /\ raised \notin RunHandlerSites)
    => /\ matched_po_data = <<>> => matching_results[1] = NoMatchResult("no_match")
       /\ \A conf \in {Frac(70, 100), Frac(1, 1)} :
              /\ UnresolvedOutcome(extracted_data[1], po_db[1], conf).matching_results
                     = <<NoMatchResult("no_match")>>
              /\ UnresolvedOutcome(extracted_data[1], po_db[1], conf).matched_po_data
                     = <<>>

\* C21 witness: a store with POs, a reference that does not resolve, no
\* candidate in the fuzzy stage: no_match
UnmatchedTerminalWitness ==
    /\ Matched
    /\ po_db # <<>>
    /\ po_db[1] # <<>>
    /\ raised = "none"
    /\ Truthy(extracted_data[1].po_reference)
    /\ matched_po_data = <<>>
    /\ matching_results[1] = NoMatchResult("no_match")

\* the greatest of a set of strategy scores
Greatest(S) ==
    CHOOSE x \in S : \A y \in S : y <= x

SupplierStrategies(a, b) ==
    {fuzz_ratio(normalize_text(a), normalize_text(b)),
     fuzz_partial_ratio(normalize_text(a), normalize_text(b)),
     fuzz_token_sort_ratio(normalize_text(a), normalize_text(b)),
     fuzz_token_set_ratio(normalize_text(a), normalize_text(b))}

ProductStrategies(a, b) ==
    {fuzz_token_set_ratio(normalize_text(a), normalize_text(b)),
     fuzz_partial_ratio(normalize_text(a), normalize_text(b)),
     fuzz_token_sort_ratio(normalize_text(a), normalize_text(b))}

\* a matcher's answer is the greatest strategy score over 100, and a match
\* iff that score reaches the threshold
ReducesTo(answer, strategies) ==
    /\ answer[2] = Frac(Greatest(strategies), 100)
    /\ answer[1] <=> Greatest(strategies) >= threshold
    /\ answer[1] <=> FracGE(answer[2], Frac(threshold, 100))

\* the descriptions of an invoice's line items that are present
InvoiceDescriptions(invoice) ==
    {invoice.line_items[i].description : i \in DOMAIN invoice.line_items}
        \ Absent

\* C22  Similarity reduction: match_supplier answers with the maximum of the
\* four strategies (ratio, partial, token-sort, token-set) and
\* match_product_description with the maximum of three (token-set, partial,
\* token-sort); confidence is that maximum over 100, is_match holds iff the
\* maximum is >= the threshold (70), i.e. iff confidence >= threshold / 100.
SimilarityReduction ==
    Matched
    => \A po \in LoadedPOs :
           /\ (Truthy(extracted_data[1].supplier_name) /\ Truthy(po.supplier))
              => ReducesTo(match_supplier(extracted_data[1].supplier_name, po.supplier),
                           SupplierStrategies(extracted_data[1].supplier_name,
                                              po.supplier))
           /\ \A d \in InvoiceDescriptions(extracted_data[1]) :
                  \A e \in Descriptions(po) \ Absent :
                      ReducesTo(match_product_description(d, e),
                                ProductStrategies(d, e))

\* C22 witness: a supplier pair whose strategies disagree, one of them
\* below the greatest, and a description pair that matches on the
\* threshold itself
SimilarityReductionWitness ==
    /\ Matched
    /\ Truthy(extracted_data[1].supplier_name)
    /\ \E po \in LoadedPOs :
           /\ Truthy(po.supplier)
           /\ fuzz_partial_ratio(normalize_text(extracted_data[1].supplier_name),
                                 normalize_text(po.supplier))
                  < Greatest(SupplierStrategies(extracted_data[1].supplier_name,
                                                po.supplier))
           /\ match_supplier(extracted_data[1].supplier_name, po.supplier)[1]
    /\ \E po \in LoadedPOs :
           \E d \in InvoiceDescriptions(extracted_data[1]) :
               \E e \in Descriptions(po) \ Absent :
                   /\ Greatest(ProductStrategies(d, e)) = threshold
                   /\ match_product_description(d, e)[1]

\* the three actions the recommendation prompt asks for
Actions ==
    {"auto_approve", "flag_for_review", "escalate_to_human"}

\* C23  The recommended_action in the output of every workflow run is one
\* of auto_approve, flag_for_review, escalate_to_human, whatever the
\* recommendation LLM returned.
RecommendedActionInRange ==
    pc = "END" => recommended_action \in Actions

\* the nodes of the graph
Nodes ==
    {"document_intelligence", "matching", "discrepancy_detection", "resolution"}

\* the two traces the graph allows, by the extraction confidence
RouteOf(conf) ==
    IF conf >= 50
    THEN <<"document_intelligence_agent", "matching_agent",
           "discrepancy_detection_agent", "resolution_recommendation_agent">>
    ELSE <<"document_intelligence_agent", "resolution_recommendation_agent">>

\* the trace so far is the beginning of the route the confidence selects
OnRoute ==
    /\ Len(agent_execution_trace) <= Len(RouteOf(extraction_confidence))
    /\ \A i \in DOMAIN agent_execution_trace :
           agent_execution_trace[i] = RouteOf(extraction_confidence)[i]

\* C24  Workflow ordering and termination: a run executes
\* document_intelligence first and resolution last, each once, and then
\* ends; matching and discrepancy_detection run, once each and in that
\* order between the two, iff extraction_confidence >= 0.5, otherwise
\* matching_results stays null and discrepancies stays empty; the route
\* follows from the confidence alone, whatever next_step holds.
WorkflowOrdering ==
    /\ agent_execution_trace # <<>> => OnRoute
    /\ pc \notin Nodes
       => /\ pc = "END"
          /\ agent_execution_trace = RouteOf(extraction_confidence)
    /\ (agent_execution_trace # <<>> /\ extraction_confidence < 50)
       => matching_results = <<>> /\ discrepancies = <<>>
    /\ Len(agent_execution_trace) = 1
       => pc = IF extraction_confidence >= 50 THEN "matching" ELSE "resolution"

\* the conservative recommendation, whatever the reasoning text
IsFallback(rec) ==
    /\ rec.recommended_action = "escalate_to_human"
    /\ rec.risk_level = "high"
    /\ rec.confidence = Zero

\* the LLM answers that are not a JSON object with the four keys
BadResponses ==
    {r \in LLMResponses : r.kind # "ok"}

\* C25  Conservative fallback of the resolution step: run returns a state
\* for every LLM outcome, and when the call fails, the response is not JSON
\* or a key of the four is missing, the state has recommended_action =
\* escalate_to_human, risk_level = high and confidence = 0.0, with no value
\* of the LLM left in these fields.
ResolutionFallback ==
    /\ pc = "resolution"
       => \A r \in BadResponses :
              /\ IsFallback(resolve(Recommendation(recommended_action, risk_level,
                                                   confidence, agent_reasoning), r))
              /\ resolve(Recommendation(recommended_action, risk_level,
                                        confidence, agent_reasoning), r).agent_reasoning
                     # r.agent_reasoning
    /\ (pc = "END" /\ agent_reasoning # "llm")
       => IsFallback(Recommendation(recommended_action, risk_level,
                                    confidence, agent_reasoning))
    /\ pc = "failed" => ~Ran("resolution_recommendation_agent")

\* C25 witness: the run ended through the handler of run (call failed or
\* key missing) after a complete match
ResolutionFallbackWitness ==
    /\ pc = "END"
    /\ Ran("resolution_recommendation_agent")
    /\ matched_po_data # <<>>
    /\ agent_reasoning = "error"
    /\ recommended_action = "escalate_to_human"
    /\ risk_level = "high"
    /\ confidence = Zero

\* the PO items whose description clears the product threshold for an
\* invoice description, by position
Clearing(desc, po_items) ==
    {j \in DOMAIN po_items :
        /\ Truthy(desc)
        /\ Truthy(po_items[j].description)
        /\ Greatest(ProductStrategies(desc, po_items[j].description)) >= threshold}

Least(S) ==
    CHOOSE x \in S : \A y \in S : x <= y

\* invoice line i is compared, for price and for quantity, with po_item
ComparedWith(i, inv_item, po_item) ==
    /\ PriceEntries(i) # {}
           <=> PriceOverTolerance(inv_item.unit_price, po_item.unit_price)
    /\ \A k \in PriceEntries(i) : discrepancies[k].po_value = <<po_item.unit_price>>
    /\ QuantityEntries(i) # {} <=> inv_item.quantity # po_item.quantity
    /\ \A k \in QuantityEntries(i) : discrepancies[k].po_value = <<po_item.quantity>>

\* C26  Line-item pairing is first-match: each invoice line is compared, in
\* the price check and in the quantity check alike, with the first PO line
\* item in PO order whose description score clears the threshold 70, also
\* when a later PO item scores higher and when another invoice line is
\* compared with the same PO item; a line no PO item of which clears the
\* threshold has no discrepancy.
FirstMatchPairing ==
    (Detected /\ matched_po_data # <<>>)
    => \A i \in DOMAIN extracted_data[1].line_items :
           IF Clearing(extracted_data[1].line_items[i].description,
                       matched_po_data[1].line_items) = {}
           THEN PriceEntries(i) = {} /\ QuantityEntries(i) = {}
           ELSE ComparedWith(i, extracted_data[1].line_items[i],
                    matched_po_data[1].line_items[
                        Least(Clearing(extracted_data[1].line_items[i].description,
                                       matched_po_data[1].line_items))])

\* the score of invoice line i with PO item j
PairScore(i, j) ==
    Greatest(ProductStrategies(extracted_data[1].line_items[i].description,
                               matched_po_data[1].line_items[j].description))

\* C26 witness: line 1 is compared with PO item 1 (a price and a quantity
\* entry against its values) although PO item 2 scores higher, and line 2 is
\* compared with PO item 1 too
FirstMatchPairingWitness ==
    /\ Detected
    /\ matched_po_data # <<>>
    /\ Len(extracted_data[1].line_items) = 2
    /\ Len(matched_po_data[1].line_items) = 2
    /\ PairScore(1, 1) >= threshold
    /\ PairScore(1, 2) > PairScore(1, 1)
    /\ PairScore(2, 1) >= threshold
    /\ \E k \in PriceEntries(1) :
           discrepancies[k].po_value = <<matched_po_data[1].line_items[1].unit_price>>
    /\ \E k \in QuantityEntries(1) :
           discrepancies[k].po_value = <<matched_po_data[1].line_items[1].quantity>>

\* PO totals that are not positive: zero, a penny and a thousand pounds below
NonPositiveTotals ==
    {0, -1, -100000}

\* the one total_variance entry of a PO total that is not positive
IsMediumTotalVariance(found, inv_total, po_total) ==
    /\ Len(found) = 1
    /\ found[1].type = "total_variance"
    /\ found[1].severity = "medium"
    /\ found[1].recommended_action = "flag_for_review"
    /\ found[1].variance_percentage = <<Zero>>
    /\ found[1].invoice_value = <<inv_total>>
    /\ found[1].po_value = <<po_total>>

\* C27  Non-positive PO total: when the matched PO's total is <= 0 every
\* invoice total different from it yields one total_variance whose severity
\* is medium and whose action is flag_for_review (variance_pct forced to 0,
\* tolerance <= 0), never high or escalate_to_human, however large the
\* difference.
NonPositivePOTotal ==
    (Detected /\ matched_po_data # <<>>)
    => /\ (matched_po_data[1].total <= 0
           /\ extracted_data[1].total # matched_po_data[1].total)
          => /\ Cardinality(Entries("total_variance")) = 1
             /\ \A k \in Entries("total_variance") :
                    IsMediumTotalVariance(<<discrepancies[k]>>,
                                          extracted_data[1].total,
                                          matched_po_data[1].total)
       /\ \A t \in NonPositiveTotals :
              extracted_data[1].total # t
              => IsMediumTotalVariance(
                     check_total_variance(extracted_data[1],
                                          [matched_po_data[1] EXCEPT !.total = t]),
                     extracted_data[1].total, t)

\* C27 witness: an invoice of 1000.00 matched to a PO whose total is 0: one
\* total_variance, medium, flag_for_review
NonPositivePOTotalWitness ==
    /\ Detected
    /\ matched_po_data # <<>>
    /\ matched_po_data[1].total = 0
    /\ extracted_data[1].total = 100000
    /\ \E k \in Entries("total_variance") :
           /\ discrepancies[k].severity = "medium"
           /\ discrepancies[k].recommended_action = "flag_for_review"

\* the methods of a result that names a PO
MatchedMethods ==
    {"exact_po_reference", "fuzzy_matching"}

\* C28  State consistency after matching: for a run with extracted data,
\* matched_po_data is non-null iff matching_results.matched_po is non-null
\* iff match_method is exact_po_reference or fuzzy_matching, and then
\* matched_po is matched_po_data's po_number; otherwise (no_match, error)
\* matched_po_data is null and po_match_confidence and match_rate are 0.0.
MatchingStateConsistent ==
    Matched
    => /\ matched_po_data # <<>> <=> matching_results[1].matched_po # None
       /\ matched_po_data # <<>> <=> matching_results[1].match_method \in MatchedMethods
       /\ IF matched_po_data # <<>>
          THEN matching_results[1].matched_po = matched_po_data[1].po_number
          ELSE /\ matching_results[1].match_method \in {"no_match", "error"}
               /\ matching_results[1].po_match_confidence = Zero
               /\ matching_results[1].match_rate = Zero

\* C28 witness: a fuzzy match, the result naming the PO the state holds
MatchingStateWitness ==
    /\ Matched
    /\ matched_po_data # <<>>
    /\ matching_results[1].match_method = "fuzzy_matching"
    /\ matching_results[1].matched_po = matched_po_data[1].po_number
    /\ matching_results[1].matched_po # None

\* the supplier score of an invoice against a PO in percent, 0 when a name
\* is absent
SupplierPct(invoice, po) ==
    IF Truthy(invoice.supplier_name) /\ Truthy(po.supplier)
    THEN Greatest(SupplierStrategies(invoice.supplier_name, po.supplier))
    ELSE 0

\* the best score of an invoice description among a PO's items in percent
ItemPct(desc, po_items) ==
    Greatest({0} \cup UNION {ProductStrategies(desc, po_items[j].description) :
                                j \in {k \in DOMAIN po_items :
                                          /\ Truthy(desc)
                                          /\ Truthy(po_items[k].description)}})

\* the conditions a fuzzy match implies on the result and the chosen PO
FuzzyNecessary(result, invoice, po) ==
    /\ FracGE(result.po_match_confidence, Frac(70, 100))
    /\ FracGE(Frac(1, 1), result.po_match_confidence)
    /\ SupplierPct(invoice, po) >= 25
    /\ invoice.line_items # <<>>
    /\ 2 * SeqSum([i \in DOMAIN invoice.line_items |->
                      ItemPct(invoice.line_items[i].description, po.line_items)])
           >= 100 * Len(invoice.line_items)

\* an invoice the fuzzy stage can never match
Unmatchable(invoice) ==
    ~Truthy(invoice.supplier_name) \/ invoice.line_items = <<>>

\* the reference of the invoice resolves in the loaded store
ReferenceResolves ==
    po_db # <<>> /\ Resolves(extracted_data[1], po_db[1])

RejectedAsInvalid ==
    /\ upload_answer.status_code = 400
    /\ upload_answer.detail = "Invalid JSON file"

\* after the rejected upload the stored file is the rejected content, and
\* the file accepted before is no longer there
RejectedContentStored ==
    (last_call = "upload-po" /\ RejectedAsInvalid)
    => /\ stored_po = last_upload
       /\ stored_po[1].kind = "not_json"
       /\ accepted_po # <<>> => stored_po # accepted_po

\* a process-invoice call without po_file ran on the stored file if there
\* is one
ProcessReadsStored ==
    (last_call = "process-invoice" /\ stored_po # <<>>)
    => po_read = stored_po

\* a stored file that is not JSON stays until an upload-po call writes
\* another content or a cleanup deletes it
StoredUntilReplaced ==
    (stored_po # <<>> /\ stored_po[1].kind = "not_json")
    => \/ stored_po' = stored_po
       \/ last_call' = "cleanup" /\ stored_po' = <<>>
       \/ last_call' = "upload-po" /\ stored_po' = last_upload'

\* C30  upload-po overwrites before it validates: after an upload rejected
\* as invalid JSON (400) the stored purchase_orders.json holds the rejected
\* content, a PO file accepted before is lost, and every later
\* process-invoice call without its own po_file reads the stored file,
\* until an upload or a cleanup replaces it.
UploadOverwritesBeforeValidating ==
    /\ [](RejectedContentStored /\ ProcessReadsStored)
    /\ [][StoredUntilReplaced]_vars

\* C30 witness: a file was accepted, the next upload was rejected as
\* invalid JSON, and process-invoice without po_file ran on the rejected
\* content
UploadOverwritesWitness ==
    /\ last_call = "process-invoice"
    /\ RejectedAsInvalid
    /\ accepted_po # <<>>
    /\ stored_po # <<>>
    /\ stored_po # accepted_po
    /\ stored_po[1].kind = "not_json"
    /\ po_read = stored_po

====
